---- MODULE Spec2Model ----
(***************************************************************************)
(* Model of max3100_module.c: the MAX3100 handle object of the Python      *)
(* extension module (one MAX3100_Object) and the operating system calls    *)
(* its methods make on the spidev descriptor; and of the ring buffer and   *)
(* receive pump of the driver's design.                                    *)
(*                                                                         *)
(* One action models one whole method call.  The handle is used by one     *)
(* thread, so the states between calls are the states a caller observes.   *)
(* Each action records in `last` the call, its arguments, the system calls *)
(* it issued (in order) and the result it returned.                        *)
(***************************************************************************)
EXTENDS Integers, Sequences, FiniteSets, TLC

VARIABLES
    fd,                 \* MAX3100_Object.fd
    mode,               \* MAX3100_Object.mode
    bits_per_word,      \* MAX3100_Object.bits_per_word
    max_speed_hz,       \* MAX3100_Object.max_speed_hz
    xfer3_block_size,   \* the cached global block size
    osOpen,             \* descriptors the process holds open in the OS
    last,               \* the last method call: arguments, system calls, result
    bufst,              \* ring buffer: the read cursor
    bufend,             \* ring buffer: the write cursor
    buf,                \* ring buffer: the byte store
    rlast               \* the last call of a ring buffer operation

vars == <<fd, mode, bits_per_word, max_speed_hz, xfer3_block_size, osOpen, last,
          bufst, bufend, buf, rlast>>

----------------------------------------------------------------------------
(* Bounds of the model. *)

\* Number of descriptors the OS hands out before open(2) fails with EMFILE.
MaxFds == 2

\* Capacity C of the ring buffer.
RingCapacity == 4

\* Most bytes the chip reports, with the R flag set, during one pump.
MaxArrive == 2

----------------------------------------------------------------------------
(* Program constants. *)

SPIDEV_MAXPATH == 4096
XFER3_DEFAULT_BLOCK_SIZE == SPIDEV_MAXPATH
XFER3_MAX_BLOCK_SIZE == 65535
SMALL_BUFFER_SIZE == 128

MAX3100_CMD_WRITE_CONF == 49152     \* 0b1100000000000000
MAX3100_CMD_READ_CONF  == 16384     \* 0b0100000000000000
MAX3100_CMD_WRITE_DATA == 32768     \* 0b1000000000000000
MAX3100_CMD_READ_DATA  == 0         \* 0b0000000000000000

MAX3100_CONF_R  == 32768            \* 0b1000000000000000
MAX3100_CONF_T  == 16384            \* 0b0100000000000000
MAX3100_CONF_RM == 1024             \* 0b0000010000000000

SPI_CS_HIGH == 4                    \* <linux/spi/spidev.h>

\* Baud tables: the MAX3100_CONF_BAUD_X1_* and MAX3100_CONF_BAUD_X2_* macros.
MAX3100_CONF_BAUD_X1 ==
    [b \in {115200, 57600, 38400, 19200, 9600, 4800, 2400, 1200, 600, 300} |->
        CASE b = 115200 -> 0    \* 0b0000
          [] b = 57600  -> 1    \* 0b0001
          [] b = 38400  -> 8    \* 0b1000
          [] b = 19200  -> 9    \* 0b1001
          [] b = 9600   -> 10   \* 0b1010
          [] b = 4800   -> 11   \* 0b1011
          [] b = 2400   -> 12   \* 0b1100
          [] b = 1200   -> 13   \* 0b1101
          [] b = 600    -> 14   \* 0b1110
          [] b = 300    -> 15]  \* 0b1111

MAX3100_CONF_BAUD_X2 ==
    [b \in {230400, 115200, 57600, 38400, 19200, 9600, 4800, 2400, 1200, 600} |->
        CASE b = 230400 -> 0    \* 0b0000
          [] b = 115200 -> 1    \* 0b0001
          [] b = 57600  -> 2    \* 0b0010
          [] b = 38400  -> 9    \* 0b1001
          [] b = 19200  -> 10   \* 0b1010
          [] b = 9600   -> 11   \* 0b1011
          [] b = 4800   -> 12   \* 0b1100
          [] b = 2400   -> 13   \* 0b1101
          [] b = 1200   -> 14   \* 0b1110
          [] b = 600    -> 15]  \* 0b1111

----------------------------------------------------------------------------
(* Machine arithmetic. *)

\* Bitwise OR of two naturals (the C operator | on unsigned operands).
RECURSIVE BitOr(_, _)
BitOr(a, b) ==
    IF a = 0 THEN b
    ELSE IF b = 0 THEN a
    ELSE (IF a % 2 = 1 \/ b % 2 = 1 THEN 1 ELSE 0) + 2 * BitOr(a \div 2, b \div 2)

\* Bitwise AND of two naturals (the C operator & on unsigned operands).
RECURSIVE BitAnd(_, _)
BitAnd(a, b) ==
    IF a = 0 \/ b = 0 THEN 0
    ELSE (IF a % 2 = 1 /\ b % 2 = 1 THEN 1 ELSE 0) + 2 * BitAnd(a \div 2, b \div 2)

\* Conversion to uint16_t.
ToU16(v) == v % 65536

\* The (__u8) cast applied to the value of a Python int.
ToU8(v) == v % 256

\* The two bytes of a uint16_t object in memory order on the little-endian
\* host, i.e. what write(fd, &word, sizeof(uint16_t)) hands to the driver.
HostBytes16(w) == <<w % 256, (w \div 256) % 256>>

----------------------------------------------------------------------------
(* The environment: the OS and the spidev device. *)

\* Descriptor numbers the OS can hand out (0..2 are the standard streams).
FdPool == 3 .. (2 + MaxFds)

\* open(2) returns the lowest free descriptor.
LowestFree == CHOOSE f \in FdPool \ osOpen : \A g \in FdPool \ osOpen : f <= g

\* Values the SPI_IOC_RD_* queries report for the device.
BusModes == {3}
BusBitsPerWord == 8
BusMaxSpeedHz == 500000

\* One system call in the record of a method call.
\* name: the call; fd: its descriptor; tx: the bytes handed to the driver;
\* n: the byte count asked for; ret: the return value; rx: the bytes the
\* driver delivered.
SysCall(name, f, tx, n, ret, rx) ==
    [sys |-> name, fd |-> f, tx |-> tx, n |-> n, ret |-> ret, rx |-> rx]

\* The record of a method call.
Call(op, arg, sys, ok, err, value) ==
    [op |-> op, arg |-> arg, sys |-> sys, ok |-> ok, err |-> err, value |-> value]

\* Possible return values of write(2)/read(2) of n bytes on descriptor f:
\* the full count, a short count, or -1; only -1 (EBADF) on a descriptor
\* that is not open.
IoStatus(f, n) ==
    IF f \in osOpen THEN {n, n - 1, -1} ELSE {-1}

\* The record of a call of a ring buffer operation.  arrived: the bytes the
\* chip reported with the R flag during the call; lost: those of them that
\* were not stored; afterClear: the call before it was a clear() that
\* succeeded.
RingCall(op, arg, arrived, lost, ok, err, value, afterClear) ==
    [op |-> op, arg |-> arg, arrived |-> arrived, lost |-> lost, ok |-> ok,
     err |-> err, value |-> value, afterClear |-> afterClear]

----------------------------------------------------------------------------
(* MAX3100_new: the handle right after construction. *)

Init ==
    /\ fd = -1
    /\ mode = 0
    /\ bits_per_word = 0
    /\ max_speed_hz = 0
    /\ xfer3_block_size = 0
    /\ osOpen = {}
    /\ last = Call("new", <<>>, <<>>, TRUE, "none", <<>>)
    /\ bufst = 0
    /\ bufend = 0
    /\ buf = [i \in 0..(RingCapacity - 1) |-> 0]
    /\ rlast = RingCall("new", 0, 0, 0, TRUE, "none", <<>>, FALSE)

----------------------------------------------------------------------------
(* MAX3100_close and MAX3100_exit. *)

\* close(2) on the handle's descriptor: 0, or -1 (always -1, EBADF, when the
\* descriptor is not open).  Each outcome is <<return value, whether the OS
\* released the descriptor>>: when close(2) fails the descriptor may or may
\* not have been released, depending on the OS.
CloseOutcomes ==
    IF fd \in osOpen
    THEN {<<0, TRUE>>, <<-1, TRUE>>, <<-1, FALSE>>}
    ELSE {<<-1, FALSE>>}

\* The body of MAX3100_close for close(2) outcome o: the early return when
\* the handle has a descriptor and close(2) failed, else the reset of the
\* four fields.
CloseBody(o) ==
    IF fd # -1 /\ o[1] = -1
    THEN /\ osOpen' = (IF o[2] THEN osOpen \ {fd} ELSE osOpen)
         /\ UNCHANGED <<fd, mode, bits_per_word, max_speed_hz>>
    ELSE /\ osOpen' = osOpen \ {fd}
         /\ fd' = -1
         /\ mode' = 0
         /\ bits_per_word' = 0
         /\ max_speed_hz' = 0

\* The system calls MAX3100_close issues: close(2) only if fd # -1.
CloseSys(o) ==
    IF fd # -1 THEN <<SysCall("close", fd, <<>>, 0, o[1], <<>>)>> ELSE <<>>

MAX3100_close ==
    /\ \E o \in CloseOutcomes :
        /\ CloseBody(o)
        /\ last' = IF fd # -1 /\ o[1] = -1
                   THEN Call("close", <<>>, CloseSys(o), FALSE, "IOError", <<>>)
                   ELSE Call("close", <<>>, CloseSys(o), TRUE, "none", <<>>)
    /\ UNCHANGED <<xfer3_block_size, bufst, bufend, buf, rlast>>

\* __exit__ calls MAX3100_close, drops its result and returns False; when
\* close left an exception set, the interpreter turns the non-NULL result
\* into a SystemError.
MAX3100_exit ==
    /\ \E o \in CloseOutcomes :
        /\ CloseBody(o)
        /\ last' = IF fd # -1 /\ o[1] = -1
                   THEN Call("exit", <<>>, CloseSys(o), FALSE, "SystemError", <<>>)
                   ELSE Call("exit", <<>>, CloseSys(o), TRUE, "none", <<>>)
    /\ UNCHANGED <<xfer3_block_size, bufst, bufend, buf, rlast>>

----------------------------------------------------------------------------
(* MAX3100_open. *)

\* BaudConf with the test of the crystal multiplier lost: the x1 switch is
\* used for every multiplier.
BaudConf_IgnoresCrystal(crystal, baud) ==
    CASE baud = 115200 -> 0
      [] baud = 57600  -> 1
      [] baud = 38400  -> 8
      [] baud = 19200  -> 9
      [] baud = 4800   -> 11
      [] baud = 2400   -> 12
      [] baud = 1200   -> 13
      [] baud = 600    -> 14
      [] baud = 300    -> 15
      [] OTHER         -> 10

\* The two switch statements of MAX3100_open: the divisor bits for a crystal
\* multiplier and a baud rate.
BaudConf(crystal, baud) ==
    IF crystal = 2
    THEN CASE baud = 230400 -> 0
           [] baud = 115200 -> 1
           [] baud = 57600  -> 2
           [] baud = 38400  -> 9
           [] baud = 19200  -> 10
           [] baud = 4800   -> 12
           [] baud = 2400   -> 13
           [] baud = 1200   -> 14
           [] baud = 600    -> 15
           [] OTHER         -> 11
    ELSE CASE baud = 115200 -> 0
           [] baud = 57600  -> 1
           [] baud = 38400  -> 8
           [] baud = 19200  -> 9
           [] baud = 4800   -> 11
           [] baud = 2400   -> 12
           [] baud = 1200   -> 13
           [] baud = 600    -> 14
           [] baud = 300    -> 15
           [] OTHER         -> 10

\* ConfWord without the MAX3100_CONF_RM bit.
ConfWord_NoRM(crystal, baud) ==
    ToU16(BitOr(BaudConf(crystal, baud), MAX3100_CMD_WRITE_CONF))

\* conf |= (MAX3100_CMD_WRITE_CONF | MAX3100_CONF_RM), in a uint16_t.
ConfWord(crystal, baud) ==
    ToU16(BitOr(BaudConf(crystal, baud),
                BitOr(MAX3100_CMD_WRITE_CONF, MAX3100_CONF_RM)))

\* Arguments open is called with, as <<crystal, baud>>: every baud rate of
\* either table with both multipliers, rates in neither table, and a
\* crystal argument that is neither 1 nor 2.
Bauds == {230400, 115200, 57600, 38400, 19200, 9600, 4800, 2400, 1200, 600, 300, 1}
OpenArgs == ({1, 2} \X Bauds) \cup {<<0, 115200>>, <<3, 600>>}

\* Arguments with which the failures of the system calls of open are tried.
OpenFailArgs == {<<1, 9600>>, <<2, 115200>>}

\* The step of MAX3100_open at which a system call fails ("none": no step
\* of the four checked ones fails).
OpenSteps == {"open", "mode", "bits", "speed", "none"}

\* The descriptor open(2) returns: -1 on failure.
OpenedFd(failAt) == IF failAt = "open" THEN -1 ELSE LowestFree

\* The system calls of MAX3100_open up to and including the failing one,
\* when open(2) returns f.
OpenSysOn(f, crystal, baud, failAt, wret) ==
    LET c1 == <<SysCall("open", -1, <<>>, 0, f, <<>>)>>
        c2 == <<SysCall("ioctl_rd_mode", f, <<>>, 0, IF failAt = "mode" THEN -1 ELSE 0, <<>>)>>
        c3 == <<SysCall("ioctl_rd_bits", f, <<>>, 0, IF failAt = "bits" THEN -1 ELSE 0, <<>>)>>
        c4 == <<SysCall("ioctl_rd_speed", f, <<>>, 0, IF failAt = "speed" THEN -1 ELSE 0, <<>>)>>
        c5 == <<SysCall("write", f, HostBytes16(ConfWord(crystal, baud)), 2, wret, <<>>)>>
    IN  CASE failAt = "open"  -> c1
          [] failAt = "mode"  -> c1 \o c2
          [] failAt = "bits"  -> c1 \o c2 \o c3
          [] failAt = "speed" -> c1 \o c2 \o c3 \o c4
          [] OTHER            -> c1 \o c2 \o c3 \o c4 \o c5

OpenSys(crystal, baud, failAt, wret) ==
    OpenSysOn(OpenedFd(failAt), crystal, baud, failAt, wret)

\* The value MAX3100_open returns: an IOError at a failed checked step,
\* None otherwise (the result of the write of the configuration word is not
\* looked at).
OpenResult(failAt, wret) == failAt = "none"

MAX3100_open ==
    \E arg \in OpenArgs, failAt \in OpenSteps, m \in BusModes, wret \in {2, 1, -1} :
        \* open(2) can succeed only while the OS has a free descriptor
        /\ failAt # "open" => FdPool \ osOpen # {}
        \* failures are tried with OpenFailArgs only
        /\ (failAt # "none" \/ wret # 2) => arg \in OpenFailArgs
        \* values not used on a path are fixed
        /\ failAt \in {"open", "mode"} => m = CHOOSE x \in BusModes : TRUE
        /\ failAt # "none" => wret = 2
        /\ fd' = OpenedFd(failAt)
        /\ osOpen' = IF failAt = "open" THEN osOpen ELSE osOpen \cup {LowestFree}
        /\ mode' = IF failAt \in {"open", "mode"} THEN mode ELSE m
        /\ bits_per_word' = IF failAt \in {"open", "mode", "bits"}
                            THEN bits_per_word ELSE BusBitsPerWord
        /\ max_speed_hz' = IF failAt = "none" THEN BusMaxSpeedHz ELSE max_speed_hz
        /\ last' = Call("open", arg, OpenSys(arg[1], arg[2], failAt, wret),
                        OpenResult(failAt, wret),
                        IF OpenResult(failAt, wret) THEN "none" ELSE "IOError", <<>>)
        /\ UNCHANGED <<xfer3_block_size, bufst, bufend, buf, rlast>>

----------------------------------------------------------------------------
(* Arguments of the stream operations. *)

\* An element of a Python sequence is an int of any value, or an object that
\* is not an int; NonInt stands for such an object.
NonInt == 1000000

\* PyLong_Check(val).
PyLong_Check(v) == v # NonInt

\* The byte sequence 1, 2, ..., 255, 0, 1, ... of length n.
Ramp(n) == [i \in 1..n |-> i % 256]

\* Ramp(n) with an object that is not an int as its last element.
RampBadLast(n) == [i \in 1..n |-> IF i = n THEN NonInt ELSE i % 256]

\* Sequences (lists, tuples) passed to writebytes2 and xfer3.
SeqInputs ==
    { <<>>, <<1>>, <<2, 1>>, <<300>>, <<1, NonInt>>, Ramp(3),
      Ramp(SMALL_BUFFER_SIZE + 1), RampBadLast(SMALL_BUFFER_SIZE + 1) }

\* Sequences passed to xfer3: of one block and of several, some with a last
\* block that is not full.
Xfer3Inputs ==
    { <<>>, <<1>>, <<2, 1>>, <<300>>, <<1, NonInt>>, Ramp(3), Ramp(5),
      RampBadLast(3) }

\* Sequences passed to xfer and xfer2, which limit the length.
LimitedInputs == SeqInputs \cup { Ramp(SPIDEV_MAXPATH + 1) }

\* Sequences passed to writebytes, which limits the length.
WritebytesInputs == LimitedInputs \cup { Ramp(SPIDEV_MAXPATH) }

\* Sequences whose length does not fit the uint16_t it is stored in.
WrapInputs == { Ramp(65536), Ramp(65537) }

\* They are tried as the first call after construction or open.
WrapTried == IF last.op \in {"new", "open"} THEN WrapInputs ELSE {}

\* The elements of seq that a loop `for (ii = 0; ii < len; ii++)` with the
\* uint16_t len = PySequence_Fast_GET_SIZE(seq) visits.
Seen16(seq) ==
    IF Len(seq) < 65536 THEN seq ELSE SubSeq(seq, 1, Len(seq) % 65536)

\* Buffer objects (bytes, bytearray) passed to writebytes2: every element is
\* a byte.
BufInputs == { <<>>, <<1>>, <<2, 1>>, Ramp(3) }

\* Lengths passed to readbytes.
ReadLens == {-3, 0, 1, 2, SPIDEV_MAXPATH + 1}

\* What /sys/module/spidev/parameters/bufsiz holds when it is first read:
\* -1 stands for a file that is absent or holds no number.
BufsizFile == {-1, 2}

\* The bytes the device clocks back are chosen by the device; byte i of the
\* t-th transfer of a call is RxByte(seed, t, i) for a seed it chooses.
RxSeeds == {5}
RxByte(seed, t, i) == (seed + 16 * t + i) % 256

\* The transfer of a call at which a failure is injected is one of the
\* first MaxFailBlk transfers (0: no transfer fails).
MaxFailBlk == 2

Min(a, b) == IF a < b THEN a ELSE b

\* For each input, the index of its first element that is not an int, 0 if
\* there is none: where the PyLong_Check loops stop.
FirstNonInt ==
    [s \in WritebytesInputs \cup Xfer3Inputs \cup {Seen16(w) : w \in WrapInputs} |->
        IF \A i \in 1..Len(s) : PyLong_Check(s[i]) THEN 0
        ELSE CHOOSE i \in 1..Len(s) :
                /\ ~PyLong_Check(s[i])
                /\ \A j \in 1..(i - 1) : PyLong_Check(s[j])]

\* For each input, buf[ii] = (__u8)PyLong_AS_LONG(val) of every element.
AsU8 ==
    [s \in WritebytesInputs \cup Xfer3Inputs \cup {Seen16(w) : w \in WrapInputs}
            \cup BufInputs |->
        [i \in 1..Len(s) |-> ToU8(s[i])]]

\* U8Block with the sequence index restarted at every block (ii used where
\* jj is meant).
U8Block_IndexRestarts(seq, lo, hi) == SubSeq(AsU8[seq], 1, hi - lo + 1)

\* The bytes placed in the transfer buffer for the elements lo..hi of seq.
U8Block(seq, lo, hi) == SubSeq(AsU8[seq], lo, hi)

\* The first SPIDEV_MAXPATH bytes the device delivers in the first transfer
\* of a call.
RxFirst == [seed \in RxSeeds |-> [i \in 1..SPIDEV_MAXPATH |-> RxByte(seed, 1, i)]]

\* The n bytes delivered in the t-th transfer of a call.
RxBlock(seed, t, n) ==
    IF t = 1 THEN SubSeq(RxFirst[seed], 1, n) ELSE [i \in 1..n |-> RxByte(seed, t, i)]

\* Blocks of at most B elements covering 1..len: their number, and the
\* first and last index of the k-th.
NBlocks(len, B) == (len + B - 1) \div B
BlockLo(k, B) == (k - 1) * B + 1
BlockHi(k, B, len) == Min(k * B, len)

\* Return value of a transfer of n bytes that is the k-th of its call, when
\* transfer failBlk fails in the way `kind` ("err": -1, "short": n - 1).
BlockRet(k, n, failBlk, kind) ==
    IF k = failBlk THEN (IF kind = "err" THEN -1 ELSE n - 1) ELSE n

\* The error a caller sees for a failed transfer: IOError when the call
\* returned -1; when the count is short the method returns NULL with no
\* exception set, which the interpreter reports as a SystemError.
IoError(kind) == IF kind = "err" THEN "IOError" ELSE "SystemError"

\* The failures that can be injected in a call of nb transfers on the
\* handle's descriptor, as <<failBlk, kind>>: none (failBlk 0) or one of the
\* first transfers, by -1 or (if short counts are looked at) by a short
\* count; on a descriptor that is not open the first transfer returns -1.
Failures(nb, kinds) ==
    IF nb = 0 THEN {<<0, "err">>}
    ELSE IF fd \notin osOpen THEN {<<1, "err">>}
    ELSE {<<0, "err">>} \cup ((1..Min(nb, MaxFailBlk)) \X kinds)

----------------------------------------------------------------------------
(* get_xfer3_block_size. *)

\* The value get_xfer3_block_size returns, and caches, when the control
\* file holds `file` (-1: no value could be read).
get_xfer3_block_size(file) ==
    IF xfer3_block_size # 0 THEN xfer3_block_size
    ELSE IF file > 0
         THEN (IF file <= XFER3_MAX_BLOCK_SIZE THEN file ELSE XFER3_MAX_BLOCK_SIZE)
         ELSE XFER3_DEFAULT_BLOCK_SIZE

\* The contents of the control file that matter: none once the value is cached.
BufsizReads == IF xfer3_block_size # 0 THEN {-1} ELSE BufsizFile

----------------------------------------------------------------------------
(* MAX3100_writebytes. *)

\* uint16_t len = PySequence_Fast_GET_SIZE(seq).
Len16(seq) == ToU16(Len(seq))

\* Whether the checks of writebytes, xfer and xfer2 let the call through to
\* its transfer: "ok", or the exception raised.
LimitedCheck(seq) ==
    LET len == Len16(seq) IN
    IF len <= 0 THEN "TypeError"
    ELSE IF len > SPIDEV_MAXPATH THEN "OverflowError"
    ELSE IF FirstNonInt[Seen16(seq)] \in 1..len THEN "TypeError"
    ELSE "ok"

\* writebytes without the test status != len: a short write returns None.
writebytes_ShortUnchecked(seq, ret) ==
    LET len == Len16(seq)
        sys == <<SysCall("write", fd, U8Block(Seen16(seq), 1, len), len, ret, <<>>)>>
    IN  IF LimitedCheck(seq) # "ok"
        THEN Call("writebytes", seq, <<>>, FALSE, LimitedCheck(seq), <<>>)
        ELSE IF ret < 0
        THEN Call("writebytes", seq, sys, FALSE, "IOError", <<>>)
        ELSE Call("writebytes", seq, sys, TRUE, "none", <<>>)

\* The call record of writebytes(seq) when write(2) returns ret.
writebytes(seq, ret) ==
    LET len == Len16(seq)
        sys == <<SysCall("write", fd, U8Block(Seen16(seq), 1, len), len, ret, <<>>)>>
    IN  IF LimitedCheck(seq) # "ok"
        THEN Call("writebytes", seq, <<>>, FALSE, LimitedCheck(seq), <<>>)
        ELSE IF ret < 0
        THEN Call("writebytes", seq, sys, FALSE, "IOError", <<>>)
        ELSE IF ret # len
        THEN Call("writebytes", seq, sys, FALSE, "SystemError", <<>>)
        ELSE Call("writebytes", seq, sys, TRUE, "none", <<>>)

MAX3100_writebytes ==
    /\ \E seq \in WritebytesInputs \cup WrapTried :
       \E ret \in (IF LimitedCheck(seq) = "ok" THEN IoStatus(fd, Len16(seq)) ELSE {-1}) :
            last' = writebytes(seq, ret)
    /\ UNCHANGED <<fd, mode, bits_per_word, max_speed_hz, xfer3_block_size, osOpen, bufst, bufend, buf, rlast>>

----------------------------------------------------------------------------
(* MAX3100_readbytes. *)

\* The count readbytes asks read(2) for: at least 1, at most sizeof(rxbuf).
ReadCount(len) ==
    IF len < 1 THEN 1
    ELSE IF len > SPIDEV_MAXPATH THEN SPIDEV_MAXPATH
    ELSE len

\* The call record of readbytes(len) when read(2) returns ret and the
\* device delivers rx.
readbytes(len, ret, rx) ==
    LET n == ReadCount(len)
        sys == <<SysCall("read", fd, <<>>, n, ret,
                         IF ret < 0 THEN <<>> ELSE SubSeq(rx, 1, ret))>>
    IN  IF ret < 0
        THEN Call("readbytes", len, sys, FALSE, "IOError", <<>>)
        ELSE IF ret # n
        THEN Call("readbytes", len, sys, FALSE, "SystemError", <<>>)
        ELSE Call("readbytes", len, sys, TRUE, "none", SubSeq(rx, 1, n))

MAX3100_readbytes ==
    /\ \E len \in ReadLens, seed \in RxSeeds :
       \E ret \in IoStatus(fd, ReadCount(len)) :
            last' = readbytes(len, ret, RxBlock(seed, 1, ReadCount(len)))
    /\ UNCHANGED <<fd, mode, bits_per_word, max_speed_hz, xfer3_block_size, osOpen, bufst, bufend, buf, rlast>>

----------------------------------------------------------------------------
(* MAX3100_writebytes2 and its helpers. *)

\* MAX3100_writebytes2_buffer: the call record for a buffer `data`, block
\* size B and injected failure f.
writebytes2_buffer(data, B, f) ==
    LET len == Len(data)
        nb == NBlocks(len, B)
        stop == IF f[1] = 0 THEN nb ELSE f[1]
        sys == [k \in 1..stop |->
                    LET lo == BlockLo(k, B)
                        hi == BlockHi(k, B, len)
                    IN  SysCall("write", fd, SubSeq(data, lo, hi), hi - lo + 1,
                                BlockRet(k, hi - lo + 1, f[1], f[2]), <<>>)]
    IN  IF f[1] = 0
        THEN Call("writebytes2", <<"buffer", data>>, sys, TRUE, "none", <<>>)
        ELSE Call("writebytes2", <<"buffer", data>>, sys, FALSE, IoError(f[2]), <<>>)

\* MAX3100_writebytes2_seq: the size of the buffer it hands to
\* MAX3100_writebytes2_seq_internal.
Wb2BufSize(seq, B) ==
    IF Min(Len(seq), B) <= SMALL_BUFFER_SIZE THEN SMALL_BUFFER_SIZE ELSE Min(Len(seq), B)

\* The block in which MAX3100_writebytes2_seq_internal and MAX3100_xfer3 meet
\* an element that is not an int (0: none), for blocks of bufsize elements.
BadBlock(seq, bufsize) ==
    IF FirstNonInt[seq] = 0 THEN 0 ELSE ((FirstNonInt[seq] - 1) \div bufsize) + 1

\* The number of blocks that are converted in full, and so transferred.
GoodBlocks(seq, bufsize) ==
    IF BadBlock(seq, bufsize) = 0 THEN NBlocks(Len(seq), bufsize)
    ELSE BadBlock(seq, bufsize) - 1

\* MAX3100_writebytes2_seq and MAX3100_writebytes2_seq_internal: the call
\* record for a sequence, block size B and injected failure f.
writebytes2_seq(seq, B, f) ==
    LET len == Len(seq)
        bufsize == Wb2BufSize(seq, B)
        stop == IF f[1] = 0 THEN GoodBlocks(seq, bufsize) ELSE f[1]
        sys == [k \in 1..stop |->
                    LET lo == BlockLo(k, bufsize)
                        hi == BlockHi(k, bufsize, len)
                    IN  SysCall("write", fd, U8Block(seq, lo, hi), hi - lo + 1,
                                BlockRet(k, hi - lo + 1, f[1], f[2]), <<>>)]
    IN  IF len <= 0
        THEN Call("writebytes2", <<"seq", seq>>, <<>>, FALSE, "TypeError", <<>>)
        ELSE IF f[1] # 0
        THEN Call("writebytes2", <<"seq", seq>>, sys, FALSE, IoError(f[2]), <<>>)
        ELSE IF BadBlock(seq, bufsize) # 0
        THEN Call("writebytes2", <<"seq", seq>>, sys, FALSE, "TypeError", <<>>)
        ELSE Call("writebytes2", <<"seq", seq>>, sys, TRUE, "none", <<>>)

\* MAX3100_writebytes2: the buffer protocol if the object supports it, else
\* the sequence protocol.
MAX3100_writebytes2 ==
    /\ \E file \in BufsizReads :
        LET B == get_xfer3_block_size(file) IN
        \/ \E data \in BufInputs :
           \E f \in Failures(NBlocks(Len(data), B), {"err", "short"}) :
                /\ last' = writebytes2_buffer(data, B, f)
                /\ xfer3_block_size' = B
        \/ \E seq \in SeqInputs :
           \E f \in Failures(GoodBlocks(seq, Wb2BufSize(seq, B)), {"err", "short"}) :
                \* an empty sequence is rejected before the block size is read
                /\ Len(seq) <= 0 => file = -1
                /\ last' = writebytes2_seq(seq, B, f)
                /\ xfer3_block_size' = (IF Len(seq) <= 0 THEN xfer3_block_size ELSE B)
    /\ UNCHANGED <<fd, mode, bits_per_word, max_speed_hz, osOpen, bufst, bufend, buf, rlast>>

----------------------------------------------------------------------------
(* MAX3100_xfer and MAX3100_xfer2. *)

\* MAX3100_Object.read0: never assigned, zero from tp_alloc.
read0 == 0

\* The zero-length read that lowers CS after a transfer in SPI_CS_HIGH mode.
Read0Sys ==
    IF read0 # 0 /\ BitAnd(mode, SPI_CS_HIGH) # 0
    THEN <<SysCall("read", fd, <<>>, 0, 0, <<>>)>>
    ELSE <<>>

\* The call record of xfer(seq) and xfer2(seq) when the SPI_IOC_MESSAGE(1)
\* ioctl returns ret and the device delivers rx.
XferCall(op, seq, ret, rx) ==
    LET len == Len16(seq)
        sys == <<SysCall("ioctl_msg", fd, U8Block(Seen16(seq), 1, len), len, ret,
                         IF ret < 0 THEN <<>> ELSE rx)>>
    IN  IF LimitedCheck(seq) # "ok"
        THEN Call(op, seq, <<>>, FALSE, LimitedCheck(seq), <<>>)
        ELSE IF ret < 0
        THEN Call(op, seq, sys, FALSE, "IOError", <<>>)
        ELSE Call(op, seq, sys \o Read0Sys, TRUE, "none",
                  SubSeq(rx, 1, len) \o SubSeq(seq, len + 1, Len(seq)))

xfer(seq, ret, rx) == XferCall("xfer", seq, ret, rx)

xfer2(seq, ret, rx) == XferCall("xfer2", seq, ret, rx)

\* Return values of the SPI_IOC_MESSAGE(1) ioctl for n bytes on the handle's
\* descriptor: the byte count or -1.
MsgStatus(n) == IF fd \in osOpen THEN {n, -1} ELSE {-1}

MAX3100_xfer ==
    /\ \E seq \in LimitedInputs \cup WrapTried, seed \in RxSeeds :
       \E ret \in (IF LimitedCheck(seq) = "ok" THEN MsgStatus(Len16(seq)) ELSE {-1}) :
            last' = xfer(seq, ret, RxBlock(seed, 1, Len16(seq)))
    /\ UNCHANGED <<fd, mode, bits_per_word, max_speed_hz, xfer3_block_size, osOpen, bufst, bufend, buf, rlast>>

MAX3100_xfer2 ==
    /\ \E seq \in LimitedInputs \cup WrapTried, seed \in RxSeeds :
       \E ret \in (IF LimitedCheck(seq) = "ok" THEN MsgStatus(Len16(seq)) ELSE {-1}) :
            last' = xfer2(seq, ret, RxBlock(seed, 1, Len16(seq)))
    /\ UNCHANGED <<fd, mode, bits_per_word, max_speed_hz, xfer3_block_size, osOpen, bufst, bufend, buf, rlast>>

----------------------------------------------------------------------------
(* MAX3100_xfer3. *)

\* An element of rx_tuple that PyTuple_SetItem has not set.
Unset == -1

\* Xfer3Store with the tuple index restarted at every block (ii used where
\* jj is meant).
Xfer3Store_IndexRestarts(rx_tuple, block_start, block_size, rx) ==
    rx \o SubSeq(rx_tuple, block_size + 1, Len(rx_tuple))

\* for (ii = 0, jj = block_start; ii < block_size; ii++, jj++)
\*     PyTuple_SetItem(rx_tuple, jj, rxbuf[ii]);
Xfer3Store(rx_tuple, block_start, block_size, rx) ==
    SubSeq(rx_tuple, 1, block_start) \o rx
        \o SubSeq(rx_tuple, block_start + block_size + 1, Len(rx_tuple))

\* The loop while (block_start < len) of MAX3100_xfer3, from block_start on,
\* with the system calls issued and the tuple filled so far.
RECURSIVE Xfer3Loop(_, _, _, _, _, _, _)
Xfer3Loop(seq, bufsize, block_start, sys, rx_tuple, f, seed) ==
    LET len == Len(seq)
        \* the fill loop stops at jj = len or ii = bufsize
        block_size == Min(bufsize, len - block_start)
        k == Len(sys) + 1
        ret == BlockRet(k, block_size, f[1], "err")
        rx == IF ret < 0 THEN <<>> ELSE RxBlock(seed, k, block_size)
        call == SysCall("ioctl_msg", fd,
                        U8Block(seq, block_start + 1, block_start + block_size),
                        block_size, ret, rx)
    IN  IF ~(block_start < len)
        THEN Call("xfer3", seq, sys \o Read0Sys, TRUE, "none", rx_tuple)
        ELSE IF FirstNonInt[seq] \in (block_start + 1)..(block_start + block_size)
        THEN Call("xfer3", seq, sys, FALSE, "TypeError", <<>>)
        ELSE IF ret < 0
        THEN Call("xfer3", seq, Append(sys, call), FALSE, "IOError", <<>>)
        ELSE Xfer3Loop(seq, bufsize, block_start + block_size, Append(sys, call),
                       Xfer3Store(rx_tuple, block_start, block_size, rx), f, seed)

\* The call record of xfer3(seq) for block size B, injected failure f and
\* device seed.
xfer3(seq, B, f, seed) ==
    LET len == Len(seq)
        bufsize == IF B > len THEN len ELSE B
    IN  IF len <= 0
        THEN Call("xfer3", seq, <<>>, FALSE, "TypeError", <<>>)
        ELSE Xfer3Loop(seq, bufsize, 0, <<>>, [j \in 1..len |-> Unset], f, seed)

MAX3100_xfer3 ==
    /\ \E file \in BufsizReads, seq \in Xfer3Inputs, seed \in RxSeeds :
        LET B == get_xfer3_block_size(file) IN
        /\ xfer3_block_size' = (IF Len(seq) <= 0 THEN xfer3_block_size ELSE B)
        \* an empty sequence is rejected before the block size is read
        /\ Len(seq) <= 0 => file = -1
        /\ \E f \in Failures(IF Len(seq) <= 0 THEN 0
                             ELSE GoodBlocks(seq, Min(B, Len(seq))), {"err"}) :
                last' = xfer3(seq, B, f, seed)
    /\ UNCHANGED <<fd, mode, bits_per_word, max_speed_hz, osOpen, bufst, bufend, buf, rlast>>

----------------------------------------------------------------------------
(* transfer16. *)

\* Command words transfer16 is called with: read-config, read-data and a
\* write-data of the byte 0x41.
SendWords ==
    { MAX3100_CMD_READ_CONF, MAX3100_CMD_READ_DATA, MAX3100_CMD_WRITE_DATA + 65 }

\* What the caller's uint16_t holds before the call.
RecvBefore == {0, 65535}

\* Reply words the chip clocks out: no flag, R with a data byte, T.
ReplyWords == {0, MAX3100_CONF_R + 90, MAX3100_CONF_T}

\* *recv after read(fd, recv, 2) returned ret with the bytes rx: the bytes
\* that were read overwrite the object's first bytes, in memory order.
RecvAfter(before, ret, rx) ==
    LET b == HostBytes16(before)
    IN  IF ret >= 2 THEN rx[1] + 256 * rx[2]
        ELSE IF ret = 1 THEN rx[1] + 256 * b[2]
        ELSE before

\* The call record of transfer16(fd, send, recv): a write(2) of the word and
\* then a read(2) into *recv, neither result looked at; the function returns
\* nothing, the record's value is *recv after the call.
transfer16(f, send, before, wret, rret, reply) ==
    LET rx == IF rret < 0 THEN <<>> ELSE SubSeq(HostBytes16(reply), 1, rret)
    IN  Call("transfer16", send,
             <<SysCall("write", f, HostBytes16(send), 2, wret, <<>>),
               SysCall("read", f, <<>>, 2, rret, rx)>>,
             TRUE, "none", RecvAfter(before, rret, rx))

\* transfer16 called on the handle's descriptor.
Transfer16 ==
    /\ \E send \in SendWords, before \in RecvBefore, reply \in ReplyWords :
       \E wret \in IoStatus(fd, 2), rret \in IoStatus(fd, 2) :
            \* values not used on a path are fixed
            /\ rret < 1 => reply = 0
            /\ rret >= 2 => before = 0
            /\ last' = transfer16(fd, send, before, wret, rret, reply)
    /\ UNCHANGED <<fd, mode, bits_per_word, max_speed_hz, xfer3_block_size, osOpen, bufst, bufend, buf, rlast>>

----------------------------------------------------------------------------
(* MAX3100_fileno. *)

MAX3100_fileno ==
    /\ last' = Call("fileno", <<>>, <<>>, TRUE, "none", fd)
    /\ UNCHANGED <<fd, mode, bits_per_word, max_speed_hz, xfer3_block_size, osOpen, bufst, bufend, buf, rlast>>

----------------------------------------------------------------------------

Next ==
    \/ MAX3100_open
    \/ MAX3100_close
    \/ MAX3100_exit
    \/ MAX3100_writebytes
    \/ MAX3100_readbytes
    \/ MAX3100_writebytes2
    \/ MAX3100_xfer
    \/ MAX3100_xfer2
    \/ MAX3100_xfer3
    \/ MAX3100_fileno
    \/ Transfer16

Spec == Init /\ [][Next]_vars

----------------------------------------------------------------------------
(* The ring buffer, the receive pump and the operations on them, as the     *)
(* design describes them (data model, Receive Pump, Byte-Stream API).       *)

\* The i-th data byte the chip delivers during one pump.
ArrivalByte(i) == IF i % 2 = 1 THEN 7 ELSE 9

\* The bytes the chip reports with the R flag during one pump, in order.
Arrivals == { [i \in 1..n |-> ArrivalByte(i)] : n \in 0..MaxArrive }

\* What the chip and the transport do during one pump, as <<arrivals,
\* fail>>: after the arrivals either the configured number of polls in a
\* row find R clear (fail = FALSE) or a poll exchange fails (fail = TRUE).
PumpScripts ==
    { <<a, FALSE>> : a \in Arrivals } \cup { <<a, TRUE>> : a \in {<<>>, <<7>>} }

\* Most pumps a blocking read is followed through.
MaxRounds == 2

\* The state of a ring buffer.
Ring(st, en, b) == [st |-> st, en |-> en, buf |-> b]

\* Occupancy count = (bufend - bufst + C) mod C.
Occupancy(st, en) == (en - st + RingCapacity) % RingCapacity

\* RingAppend without the test for the full state.
RingAppend_NoOverrunCheck(r, byte) ==
    [ok |-> TRUE,
     ring |-> Ring(r.st, (r.en + 1) % RingCapacity, [r.buf EXCEPT ![r.en] = byte])]

\* The pump appends a byte at the write cursor, unless that would make the
\* buffer reach the full state (occupancy C - 1): that is an overrun.
RingAppend(r, byte) ==
    IF Occupancy(r.st, (r.en + 1) % RingCapacity) = RingCapacity - 1
    THEN [ok |-> FALSE, ring |-> r]
    ELSE [ok |-> TRUE,
          ring |-> Ring(r.st, (r.en + 1) % RingCapacity, [r.buf EXCEPT ![r.en] = byte])]

\* The pump from the i-th arrival on: the ring it leaves, its error, the
\* number of bytes it saw and the number it could not store.
RECURSIVE PumpFrom(_, _, _)
PumpFrom(r, arrivals, i) ==
    IF i > Len(arrivals)
    THEN [ring |-> r, err |-> "none", arrived |-> Len(arrivals), lost |-> 0]
    ELSE LET a == RingAppend(r, arrivals[i])
         IN  IF ~a.ok
             THEN [ring |-> r, err |-> "Overrun", arrived |-> i, lost |-> 1]
             ELSE PumpFrom(a.ring, arrivals, i + 1)

\* pump(handle) under a script.
pump(r, script) ==
    LET p == PumpFrom(r, script[1], 1)
    IN  IF p.err = "none" /\ script[2] THEN [p EXCEPT !.err = "IOError"] ELSE p

\* The n oldest bytes, and the ring with the read cursor moved past them.
Dequeue(r, n) ==
    [value |-> [i \in 1..n |-> r.buf[(r.st + i - 1) % RingCapacity]],
     ring |-> Ring((r.st + n) % RingCapacity, r.en, r.buf)]

\* Blocking-exact read: pump, dequeue, until `need` more bytes are obtained;
\* "blocked" when the rounds followed end before that.
RECURSIVE ReadExact(_, _, _, _, _, _)
ReadExact(r, need, rounds, i, got, seen) ==
    IF i > Len(rounds)
    THEN [ring |-> r, err |-> "blocked", arrived |-> seen, lost |-> 0,
          value |-> got, used |-> i - 1]
    ELSE LET p == pump(r, rounds[i])
             take == Min(need, Occupancy(p.ring.st, p.ring.en))
             d == Dequeue(p.ring, take)
         IN  IF p.err # "none"
             THEN [ring |-> p.ring, err |-> p.err, arrived |-> seen + p.arrived,
                   lost |-> p.lost, value |-> <<>>, used |-> i]
             ELSE IF take = need
             THEN [ring |-> d.ring, err |-> "none", arrived |-> seen + p.arrived,
                   lost |-> 0, value |-> got \o d.value, used |-> i]
             ELSE ReadExact(d.ring, need - take, rounds, i + 1, got \o d.value,
                            seen + p.arrived)

\* read(n): blocking-exact for n > 0, non-blocking-greedy for n = 0,
\* non-blocking-bounded for n < 0; each pumps before it dequeues.
read(r, n, rounds) ==
    IF n > 0 THEN ReadExact(r, n, rounds, 1, <<>>, 0)
    ELSE LET p == pump(r, rounds[1])
             occ == Occupancy(p.ring.st, p.ring.en)
             d == Dequeue(p.ring, IF n = 0 THEN occ ELSE Min(-n, occ))
         IN  IF p.err # "none"
             THEN [ring |-> p.ring, err |-> p.err, arrived |-> p.arrived,
                   lost |-> p.lost, value |-> <<>>, used |-> 1]
             ELSE [ring |-> d.ring, err |-> "none", arrived |-> p.arrived,
                   lost |-> 0, value |-> d.value, used |-> 1]

\* available(): pump once, then the occupancy.
available(r, script) ==
    LET p == pump(r, script)
    IN  [ring |-> p.ring, err |-> p.err, arrived |-> p.arrived, lost |-> p.lost,
         value |-> IF p.err = "none" THEN Occupancy(p.ring.st, p.ring.en) ELSE <<>>]

\* clear(): pump once, then both cursors to zero.
clear(r, script) ==
    LET p == pump(r, script)
    IN  [ring |-> IF p.err = "none" THEN Ring(0, 0, p.ring.buf) ELSE p.ring,
         err |-> p.err, arrived |-> p.arrived, lost |-> p.lost, value |-> <<>>]

\* The ring of the handle.
TheRing == Ring(bufst, bufend, buf)

\* The step of a ring buffer operation with result res.
RingStep(op, arg, res) ==
    /\ bufst' = res.ring.st
    /\ bufend' = res.ring.en
    /\ buf' = res.ring.buf
    /\ rlast' = RingCall(op, arg, res.arrived, res.lost, res.err = "none",
                         res.err, res.value, rlast.op = "clear" /\ rlast.ok)
    /\ UNCHANGED <<fd, mode, bits_per_word, max_speed_hz, xfer3_block_size,
                   osOpen, last>>

Ring_pump ==
    \E script \in PumpScripts :
        LET res == pump(TheRing, script) @@ [value |-> <<>>]
        IN  /\ res.err # "blocked"
            /\ RingStep("pump", 0, res)

\* Lengths read is called with.
RingReadLens == {-1, 0, RingCapacity - 2}

\* The pumps of one read: one for a non-blocking read, up to MaxRounds for
\* a blocking one.
ReadRounds(n) ==
    UNION { [1..k -> PumpScripts] : k \in 1..(IF n > 0 THEN MaxRounds ELSE 1) }

Ring_read ==
    \E n \in RingReadLens :
    \E rounds \in ReadRounds(n) :
        LET res == read(TheRing, n, rounds)
        IN  /\ res.err # "blocked"
            /\ res.used = Len(rounds)
            /\ RingStep("read", n, res)

Ring_available ==
    \E script \in PumpScripts :
        LET res == available(TheRing, script)
        IN  /\ res.err # "blocked"
            /\ RingStep("available", 0, res)

Ring_clear ==
    \E script \in PumpScripts :
        LET res == clear(TheRing, script)
        IN  /\ res.err # "blocked"
            /\ RingStep("clear", 0, res)

RingNext ==
    \/ Ring_pump
    \/ Ring_read
    \/ Ring_available
    \/ Ring_clear

\* The handle after open(bus, device, 1, 9600) in a fresh process, with its
\* ring buffer empty.
RingInit ==
    /\ fd = 3
    /\ mode \in BusModes
    /\ bits_per_word = BusBitsPerWord
    /\ max_speed_hz = BusMaxSpeedHz
    /\ xfer3_block_size = 0
    /\ osOpen = {3}
    /\ last = Call("open", <<1, 9600>>, OpenSysOn(3, 1, 9600, "none", 2),
                   TRUE, "none", <<>>)
    /\ bufst = 0
    /\ bufend = 0
    /\ buf = [i \in 0..(RingCapacity - 1) |-> 0]
    /\ rlast = RingCall("new", 0, 0, 0, TRUE, "none", <<>>, FALSE)

RingSpec == RingInit /\ [][RingNext]_vars

----------------------------------------------------------------------------
(* Handle states. *)

\* Closed: no descriptor and zero configuration.
HandleClosed ==
    /\ fd = -1
    /\ mode = 0
    /\ bits_per_word = 0
    /\ max_speed_hz = 0

\* Open: a descriptor that is open in the OS and the configuration the bus
\* reports.
HandleOpen ==
    /\ fd \in osOpen
    /\ mode \in BusModes
    /\ bits_per_word = BusBitsPerWord
    /\ max_speed_hz = BusMaxSpeedHz

StreamOps == {"writebytes", "writebytes2", "readbytes", "xfer", "xfer2", "xfer3"}
WriteOps == {"writebytes", "writebytes2"}

\* The sequence or buffer a write operation was called with.
WriteInput == IF last.op = "writebytes2" THEN last.arg[2] ELSE last.arg

\* The bytes of the system calls k..Len(sys) handed to the driver, in order.
RECURSIVE TxFrom(_, _)
TxFrom(sys, k) == IF k > Len(sys) THEN <<>> ELSE sys[k].tx \o TxFrom(sys, k + 1)

\* A system call moved data on the bus: it succeeded with a nonzero count.
Transferred(c) ==
    /\ c.sys \in {"write", "read", "ioctl_msg"}
    /\ c.ret > 0

\* A transfer was asked for and failed or came back short.
TransferFailed(c) ==
    /\ c.sys \in {"write", "read", "ioctl_msg"}
    /\ c.ret # c.n

\* The uint16_t whose two bytes in host memory order are tx.
HostWord(tx) == tx[1] + 256 * tx[2]

----------------------------------------------------------------------------
(* C1 *)

\* C1 (as claimed): in every state a caller can observe, the handle is
\* either Closed (fd = -1, zero configuration) or Open (valid fd,
\* configuration read from the bus).
CE_C1_ClosedOrOpen == HandleClosed \/ HandleOpen

----------------------------------------------------------------------------
(* C2 *)

\* C2 (as claimed): a stream operation called on a handle with fd = -1
\* returns an error and moves no data on the bus.
CE_C2_ClosedRejects ==
    (last.op \in StreamOps /\ fd = -1) =>
        /\ ~last.ok
        /\ \A k \in 1..Len(last.sys) : ~Transferred(last.sys[k])

----------------------------------------------------------------------------
(* C3 *)

\* C3 (as claimed): close() and __exit__ always leave the handle Closed, and
\* a close of a handle without descriptor succeeds without any OS call.
CE_C3_CloseEndsClosed ==
    last.op \in {"close", "exit"} =>
        /\ HandleClosed
        /\ last.ok

----------------------------------------------------------------------------
(* C4 *)

\* C4 (as claimed): a successful readbytes(length) returns exactly length
\* bytes for length > 0; for length = 0 it returns at once, without waiting
\* for a transfer, the bytes already available (the handle buffers none);
\* for length < 0 it returns at most |length| bytes without waiting for a
\* transfer.
CE_C4_ReadModes ==
    (last.op = "readbytes" /\ last.ok) =>
        /\ last.arg > 0 => Len(last.value) = last.arg
        /\ last.arg = 0 => (last.sys = <<>> /\ last.value = <<>>)
        /\ last.arg < 0 => (last.sys = <<>> /\ Len(last.value) <= -last.arg)

----------------------------------------------------------------------------
(* C5 *)

\* An element a write must reject: not an int, or an int outside 0..255.
InvalidElement(v) == ~PyLong_Check(v) \/ v < 0 \/ v > 255

\* The elements of the inputs that are valid.
ValidElements == {v \in (0..300) \cup {NonInt} : ~InvalidElement(v)}

\* C5 (as claimed): writebytes and writebytes2 called with an input that
\* has an invalid element at any position return an error and have handed
\* no byte to the driver.
CE_C5_InvalidRejectedFirst ==
    (/\ last.op \in WriteOps
     /\ WriteInput \notin Seq(ValidElements)) =>
        /\ ~last.ok
        /\ last.sys = <<>>

----------------------------------------------------------------------------
(* C6 *)

\* A read-config exchange that reported the T flag: a full-duplex transfer
\* of the read-config command whose reply has MAX3100_CONF_T set.
ReadConfReportedT(c) ==
    /\ c.sys = "ioctl_msg"
    /\ c.ret = 2
    /\ Len(c.tx) = 2
    /\ BitAnd(HostWord(c.tx), MAX3100_CMD_WRITE_CONF) = MAX3100_CMD_READ_CONF
    /\ Len(c.rx) = 2
    /\ BitAnd(HostWord(c.rx), MAX3100_CONF_T) = MAX3100_CONF_T

\* C6 (as claimed): every write of data bytes by writebytes or writebytes2
\* directly follows, in the same call, a read-config exchange that reported
\* the T flag.
CE_C6_WriteAfterTransmitReady ==
    last.op \in WriteOps =>
        \A k \in 1..Len(last.sys) :
            last.sys[k].sys = "write" =>
                /\ k > 1
                /\ ReadConfReportedT(last.sys[k - 1])

----------------------------------------------------------------------------
(* C7 *)

\* The input of a write is a non-empty sequence of ints in 0..255.
ByteInput(seq) ==
    /\ Len(seq) > 0
    /\ seq \in Seq(ValidElements)

NoTransferFailed == \A k \in 1..Len(last.sys) : ~TransferFailed(last.sys[k])

\* C7 (as claimed): for every non-empty sequence of ints in 0..255 passed
\* to writebytes or writebytes2, when no transfer fails the bytes handed to
\* the driver, in the order of the transfers, are the input sequence.
CE_C7_AllBytesInOrder ==
    (last.op \in WriteOps /\ ByteInput(WriteInput) /\ NoTransferFailed) =>
        TxFrom(last.sys, 1) = WriteInput

\* C7 (amended): the same for writebytes2 with an input of any length and
\* for writebytes with an input of at most SPIDEV_MAXPATH elements; the call
\* then returns success.
T_C7_AllBytesInOrder ==
    (/\ last.op \in WriteOps
     /\ last.op = "writebytes" => Len(WriteInput) <= SPIDEV_MAXPATH
     /\ ByteInput(WriteInput)
     /\ NoTransferFailed) =>
        /\ TxFrom(last.sys, 1) = WriteInput
        /\ last.ok

\* A writebytes2 of a sequence longer than one block went through in
\* several transfers.
W_C7_MultiBlockWrite ==
    /\ last.op = "writebytes2"
    /\ last.arg[1] = "seq"
    /\ last.ok
    /\ Len(last.sys) >= 2
    /\ Len(WriteInput) = SMALL_BUFFER_SIZE + 1

----------------------------------------------------------------------------
(* C8 *)

\* The documented divisor bits: the table of the multiplier, and its 9600
\* entry for a baud rate the table does not list.
TableDivisor(crystal, baud) ==
    LET table == IF crystal = 2 THEN MAX3100_CONF_BAUD_X2 ELSE MAX3100_CONF_BAUD_X1
    IN  IF baud \in DOMAIN table THEN table[baud] ELSE table[9600]

\* C8: for multiplier 1 or 2 and any baud rate, the divisor bits of the
\* configuration word open sends are the documented ones, with the 9600
\* entry for an unlisted rate; and open succeeds for every baud rate when
\* its four checked system calls succeed.
T_C8_BaudResolution ==
    (last.op = "open" /\ Len(last.sys) = 5) =>
        /\ last.arg[1] \in {1, 2} =>
                HostWord(last.sys[5].tx) % 16 = TableDivisor(last.arg[1], last.arg[2])
        /\ last.ok

\* open(crystal = 2, baud = 1): an unlisted rate, resolved and sent.
W_C8_UnlistedBaud ==
    /\ last.op = "open"
    /\ last.arg = <<2, 1>>
    /\ last.ok
    /\ Len(last.sys) = 5

----------------------------------------------------------------------------
(* C9 *)

----------------------------------------------------------------------------
(* C10 *)

\* C10 (as claimed): when the write of the configuration word fails or is
\* short, open returns an error.
CE_C10_ConfigWriteChecked ==
    (/\ last.op = "open"
     /\ \E k \in 1..Len(last.sys) :
            last.sys[k].sys = "write" /\ last.sys[k].ret # last.sys[k].n) =>
        ~last.ok

----------------------------------------------------------------------------
(* C11 *)

\* C11 (as claimed): a call of the 16-bit exchange is exactly one bus
\* transaction, a full-duplex transfer of 2 bytes that sends the command
\* word and receives the reply word; never a send followed by a separate
\* receive.
CE_C11_OneTransaction ==
    last.op = "transfer16" =>
        /\ Len(last.sys) = 1
        /\ last.sys[1].sys = "ioctl_msg"
        /\ last.sys[1].n = 2
        /\ Len(last.sys[1].tx) = 2
        /\ last.sys[1].ret = 2 => Len(last.sys[1].rx) = 2

----------------------------------------------------------------------------
(* C12 *)

\* The 16-bit word a chip assembles from two wire bytes, first byte high.
ChipWord(tx) == 256 * tx[1] + tx[2]

\* The command word of a call: the configuration word of open, the word
\* passed to transfer16.
CommandWord ==
    IF last.op = "open" THEN ConfWord(last.arg[1], last.arg[2]) ELSE last.arg

\* C12 (as claimed): the two bytes open and the 16-bit exchange put on the
\* wire for a command word are its high byte and then its low byte, so that
\* the chip, reading them big-endian, recovers the word.
CE_C12_HighByteFirst ==
    last.op \in {"open", "transfer16"} =>
        \A k \in 1..Len(last.sys) :
            (last.sys[k].sys = "write" /\ last.sys[k].ret = 2) =>
                ChipWord(last.sys[k].tx) = CommandWord

----------------------------------------------------------------------------
(* C13 *)

\* The cursors are in [0, C), the occupancy is in [0, C - 1], and the full
\* state (occupancy C - 1) or a byte that was not stored comes only with an
\* overrun error.
RingInvariant ==
    /\ bufst \in 0..(RingCapacity - 1)
    /\ bufend \in 0..(RingCapacity - 1)
    /\ Occupancy(bufst, bufend) >= 0
    /\ Occupancy(bufst, bufend) <= RingCapacity - 1
    /\ Occupancy(bufst, bufend) = RingCapacity - 1 => rlast.err = "Overrun"
    /\ rlast.lost > 0 => (~rlast.ok /\ rlast.err = "Overrun")

\* C13 (as claimed): after any sequence of pump, read, available and clear
\* calls the ring invariant holds, and an available() that directly follows
\* a clear() returns 0.
CE_C13_RingInvariant ==
    /\ RingInvariant
    /\ (rlast.op = "available" /\ rlast.afterClear /\ rlast.ok) => rlast.value = 0

\* C13 (amended): the ring invariant holds, and an available() that directly
\* follows a clear() returns 0 when the chip reports no byte during the pump
\* of that available(); in general it returns the number of bytes its pump
\* stored.
T_C13_RingInvariant ==
    /\ RingInvariant
    /\ (rlast.op = "available" /\ rlast.afterClear /\ rlast.ok) =>
            /\ rlast.value = rlast.arrived
            /\ rlast.arrived = 0 => rlast.value = 0

\* An available() right after a clear() that discarded stored bytes, with
\* no byte arriving, returned 0.
W_C13_ClearThenAvailable ==
    /\ rlast.op = "available"
    /\ rlast.afterClear
    /\ rlast.ok
    /\ rlast.arrived = 0
    /\ rlast.value = 0
    /\ \E i \in 0..(RingCapacity - 1) : buf[i] # 0

----------------------------------------------------------------------------
(* C14 *)

\* C14: in writebytes, writebytes2, readbytes, xfer, xfer2 and xfer3, a
\* transfer that fails or comes back short is the last system call of the
\* operation (no later block, no retry), and the operation returns an error.
T_C14_StopsAtFailedTransfer ==
    last.op \in StreamOps =>
        \A k \in 1..Len(last.sys) :
            TransferFailed(last.sys[k]) =>
                /\ k = Len(last.sys)
                /\ ~last.ok
                /\ last.err \in {"IOError", "SystemError"}
                /\ last.value = <<>>

\* A writebytes2 of a sequence of two blocks whose first write came back
\* short: the second block was not sent.
W_C14_ShortFirstBlock ==
    /\ last.op = "writebytes2"
    /\ last.arg[1] = "seq"
    /\ Len(WriteInput) = SMALL_BUFFER_SIZE + 1
    /\ Len(last.sys) = 1
    /\ last.sys[1].n = SMALL_BUFFER_SIZE
    /\ last.sys[1].ret = SMALL_BUFFER_SIZE - 1
    /\ ~last.ok

----------------------------------------------------------------------------
(* C15 *)

\* C15 (as claimed): writebytes, xfer and xfer2 called with a sequence of
\* more than SPIDEV_MAXPATH elements, of whatever length, raise
\* OverflowError and issue no transfer.
CE_C15_LongInputRejected ==
    (/\ last.op \in {"writebytes", "xfer", "xfer2"}
     /\ Len(last.arg) > SPIDEV_MAXPATH) =>
        /\ ~last.ok
        /\ last.err = "OverflowError"
        /\ last.sys = <<>>

----------------------------------------------------------------------------
(* C16 *)

\* The bytes the driver delivered in the system calls k..Len(sys), in order.
RECURSIVE RxFrom(_, _)
RxFrom(sys, k) == IF k > Len(sys) THEN <<>> ELSE sys[k].rx \o RxFrom(sys, k + 1)

\* C16: xfer3 on an input of len >= 1 elements, with the block size B in
\* force: B is in 1..65535; the call ends after at most len transfers; each
\* transfer carries between 1 and B bytes; the transfers, in order, carry
\* the input elements 1, 2, ... without gap or overlap; on success they
\* carry all len elements and the tuple returned has len elements, each
\* set, element j being the j-th byte received.
T_C16_BlocksCoverInput ==
    (last.op = "xfer3" /\ Len(last.arg) >= 1) =>
        LET seq == last.arg
            len == Len(seq)
            sent == TxFrom(last.sys, 1)
        IN  /\ xfer3_block_size \in 1..XFER3_MAX_BLOCK_SIZE
            /\ Len(last.sys) <= len
            /\ \A k \in 1..Len(last.sys) :
                    /\ last.sys[k].sys = "ioctl_msg"
                    /\ last.sys[k].n \in 1..xfer3_block_size
                    /\ Len(last.sys[k].tx) = last.sys[k].n
            /\ Len(sent) <= len
            /\ \A i \in 1..Len(sent) : sent[i] = seq[i] % 256
            /\ last.ok =>
                    /\ Len(sent) = len
                    /\ Len(last.value) = len
                    /\ \A j \in 1..len : last.value[j] \in 0..255
                    /\ last.value = RxFrom(last.sys, 1)

\* An xfer3 of five elements with block size 2 succeeded in three transfers,
\* the last of one byte.
W_C16_ThreeBlocks ==
    /\ last.op = "xfer3"
    /\ last.ok
    /\ Len(last.arg) = 5
    /\ xfer3_block_size = 2
    /\ Len(last.sys) = 3
    /\ last.sys[3].n = 1

----------------------------------------------------------------------------
(* C17 *)

\* C17 (as claimed): every descriptor the process holds open is the
\* handle's current fd, and after a close() none is open.
CE_C17_NoDescriptorLeak ==
    /\ \A f \in osOpen : f = fd
    /\ last.op = "close" => osOpen = {}

====
